---- MODULE Spec2Model ----
(***************************************************************************)
(* A model of the Flask service of src/app.py: a proxy in front of one     *)
(* Google Sheets spreadsheet.  Four read routes (/sheets/preview,          *)
(* /sheets/export.csv, /sheets/export.xlsx, /sheets/view) read a worksheet *)
(* with one get_all_values call; POST /send-to-sheets overwrites a         *)
(* worksheet with an uploaded Excel table in three calls (clear, update    *)
(* A1, update A2).  The spreadsheet is the only durable state; it is       *)
(* shared by every request the server handles.                             *)
(*                                                                         *)
(* Text is modelled by TLA+ strings, except the two values the code strips *)
(* (the API_KEY variable and the X-API-KEY header), which are sequences of *)
(* one-character strings.  A table is a sequence of rows, a row a sequence *)
(* of cells.  A call that can raise returns a record with an ok field.     *)
(***************************************************************************)
EXTENDS Integers, Sequences, FiniteSets, TLC

\* ------------------------------------------------------------------------
\* Bounds of the model
\* ------------------------------------------------------------------------

\* Largest limit a read request asks for in front of the short worksheets.
MaxLimit == 1
\* Largest offset a read request asks for in front of the short worksheets.
MaxOffset == 1
\* Rows the large worksheet holds beyond the largest cap on a page.
ExtraRows == 1

\* ------------------------------------------------------------------------
\* Program constants
\* ------------------------------------------------------------------------

DEFAULT_SPREADSHEET_ID == "1NPP1K8335plGHaJtSUM3ag6FZkbONEgGxISONXW3KDQ"
DEFAULT_SHEET_TITLE == "Cursos Gratuitos"
API_KEY_ENV_NAME == "API_KEY"

PREVIEW_DEFAULT_LIMIT == 10
PREVIEW_MAX_LIMIT == 1000
VIEW_DEFAULT_LIMIT == 50
VIEW_MAX_LIMIT == 2000
DEFAULT_OFFSET == 0

\* ------------------------------------------------------------------------
\* Python built-ins the handlers use
\* ------------------------------------------------------------------------

Min(a, b) == IF a <= b THEN a ELSE b
Max(a, b) == IF a >= b THEN a ELSE b

\* s[a:b] for 0 <= a, 0 <= b (the handlers clamp both to be non-negative).
PySlice(s, a, b) == SubSeq(s, a + 1, Min(b, Len(s)))
\* s[a:] for 0 <= a.
PySliceFrom(s, a) == SubSeq(s, a + 1, Len(s))

Whitespace == {" ", "\t"}

RECURSIVE lstrip(_)
lstrip(s) ==
  IF s # <<>> /\ Head(s) \in Whitespace THEN lstrip(Tail(s)) ELSE s

RECURSIVE rstrip(_)
rstrip(s) ==
  IF s # <<>> /\ s[Len(s)] \in Whitespace
  THEN rstrip(SubSeq(s, 1, Len(s) - 1))
  ELSE s

\* str.strip()
strip(s) == rstrip(lstrip(s))

\* A query parameter or header as the request carries it: absent, or present
\* with a text.  For limit and offset the text is an integer literal (isInt,
\* with value v) or something int() rejects.
NoArg == [present |-> FALSE, isInt |-> FALSE, v |-> 0]
IntArg(n) == [present |-> TRUE, isInt |-> TRUE, v |-> n]
TextArg == [present |-> TRUE, isInt |-> FALSE, v |-> 0]

\* int(request.args.get(name, default)): the default is already an int; a
\* present text is parsed, and a text that is no integer raises ValueError.
IntParam(arg, default) ==
  IF ~arg.present THEN [ok |-> TRUE, v |-> default]
  ELSE IF arg.isInt THEN [ok |-> TRUE, v |-> arg.v]
  ELSE [ok |-> FALSE, v |-> 0]

\* request.args.get(name, default) for a text parameter.
StrParam(arg, default) == IF arg.present THEN arg.v ELSE default
NoStr == [present |-> FALSE, v |-> ""]
StrArg(s) == [present |-> TRUE, v |-> s]

\* ------------------------------------------------------------------------
\* The Google Sheets side (gspread calls of the handlers)
\* ------------------------------------------------------------------------

\* The spreadsheets the service account can open.
Spreadsheets == {DEFAULT_SPREADSHEET_ID}
OTHER_SPREADSHEET_ID == "unknown-spreadsheet-id"
OTHER_SHEET_TITLE == "Outra"
Titles == {DEFAULT_SHEET_TITLE, OTHER_SHEET_TITLE}

\* A worksheet of the spreadsheet: absent, or a grid of cell values.  The
\* grid is stored without trailing empty cells and trailing empty rows,
\* which is all the values API reports of it.
NoSheet == [exists |-> FALSE, grid |-> <<>>]
Sheet(g) == [exists |-> TRUE, grid |-> g]

RECURSIVE TrimRow(_)
TrimRow(row) ==
  IF row # <<>> /\ row[Len(row)] = ""
  THEN TrimRow(SubSeq(row, 1, Len(row) - 1))
  ELSE row

RECURSIVE LastRow(_, _)
LastRow(g, n) == IF n = 0 \/ g[n] # <<>> THEN n ELSE LastRow(g, n - 1)

TrimGrid(g) ==
  LET rows == [i \in 1..Len(g) |-> TrimRow(g[i])]
  IN  SubSeq(rows, 1, LastRow(rows, Len(rows)))

CellAt(g, r, c) == IF r <= Len(g) /\ c <= Len(g[r]) THEN g[r][c] ELSE ""

\* A clear that leaves the values in place.
ws_clear_keeps(g) == g

\* ws.clear(): every value of the worksheet is removed.
ws_clear(g) == <<>>

\* The grid g with the rectangle of values written over it, its top-left
\* corner at column A of row r0; cells outside the rectangle keep their value.
WriteRect(g, r0, values) ==
  LET last == Max(Len(g), r0 - 1 + Len(values))
      inside(r) == r >= r0 /\ r <= r0 - 1 + Len(values)
      width(r) ==
        IF inside(r)
        THEN Max(IF r <= Len(g) THEN Len(g[r]) ELSE 0, Len(values[r - r0 + 1]))
        ELSE IF r <= Len(g) THEN Len(g[r]) ELSE 0
  IN  TrimGrid([r \in 1..last |->
        [c \in 1..width(r) |->
          IF inside(r) /\ c <= Len(values[r - r0 + 1])
          THEN values[r - r0 + 1][c]
          ELSE CellAt(g, r, c)]])

\* An update that ignores the row of its range and writes at the top.
ws_update_at_top(g, r0, values) == WriteRect(g, 1, values)

\* ws.update("A<r0>", values)
ws_update(g, r0, values) == WriteRect(g, r0, values)

GridWidth(g) ==
  LET lens == {Len(g[i]) : i \in 1..Len(g)}
  IN  IF lens = {} THEN 0 ELSE CHOOSE w \in lens : \A x \in lens : x <= w

\* ws.get_all_values(): the rows up to the last non-empty one, each filled
\* with "" to the width of the widest; an empty worksheet gives an empty list.
get_all_values(g) ==
  LET w == GridWidth(g)
  IN  [r \in 1..Len(g) |->
        IF Len(g[r]) = w THEN g[r] ELSE [c \in 1..w |-> CellAt(g, r, c)]]

\* ------------------------------------------------------------------------
\* pandas
\* ------------------------------------------------------------------------

\* What pandas holds for a blank cell.  Neither json.dumps(allow_nan=False)
\* nor the Sheets API accepts it in a request body.
NaN == "NaN"
VAZIO == "(vazio)"

\* An uploaded file: unreadable bytes, or a workbook whose first sheet is a
\* rectangular grid of cells ("" for a blank cell).
Garbage == [readable |-> FALSE, cells |-> <<>>]
Xlsx(cells) == [readable |-> TRUE, cells |-> cells]

\* The name pandas gives the k-th column (counted from 0) when its header
\* cell is blank.
Unnamed(k) ==
  CASE k = 0 -> "Unnamed: 0"
    [] k = 1 -> "Unnamed: 1"
    [] OTHER -> "Unnamed: 2"

\* pd.read_excel(io.BytesIO(content)): the first row names the columns, the
\* rows below are the data, a blank data cell is NaN.
read_excel(file) ==
  IF ~file.readable THEN [ok |-> FALSE, columns |-> <<>>, values |-> <<>>]
  ELSE IF file.cells = <<>> THEN [ok |-> TRUE, columns |-> <<>>, values |-> <<>>]
  ELSE
    LET head == file.cells[1]
        body == Tail(file.cells)
    IN  [ok |-> TRUE,
         columns |-> [c \in 1..Len(head) |->
                       IF head[c] = "" THEN Unnamed(c - 1) ELSE head[c]],
         values |-> [r \in 1..Len(body) |->
                      [c \in 1..Len(head) |->
                        IF c > Len(body[r]) \/ body[r][c] = "" THEN NaN
                        ELSE body[r][c]]]]

\* df.empty: no column or no row.
df_empty(df) == Len(df.columns) = 0 \/ Len(df.values) = 0

\* Whether a list of rows can be sent as the JSON body of a values update.
Serializable(values) ==
  \A r \in 1..Len(values) : \A c \in 1..Len(values[r]) : values[r][c] # NaN

\* ------------------------------------------------------------------------
\* Environment and credentials
\* ------------------------------------------------------------------------

\* An environment variable: unset, or set to a value.
Unset(empty) == [set |-> FALSE, v |-> empty]
SetTo(x) == [set |-> TRUE, v |-> x]

\* os.getenv(name, default) and os.getenv(name) (None is falsy, as "" is).
getenv(var, default) == IF var.set THEN var.v ELSE default

SERVICE_ACCOUNT_JSON == "{type: service_account, private_key: ...}"
EMPTY_OBJECT_JSON == "{}"
NOT_JSON == "not json"
GOOD_SECRET_PATH == "/etc/secrets/good.json"
BAD_SECRET_PATH == "/etc/secrets/bad.json"

\* The files of the host the credentials variable may name.
SecretFiles ==
  (GOOD_SECRET_PATH :> SERVICE_ACCOUNT_JSON) @@ (BAD_SECRET_PATH :> NOT_JSON)

\* json.loads(content): the texts that are JSON documents parse.
json_loads(content) ==
  [ok |-> content \in {SERVICE_ACCOUNT_JSON, EMPTY_OBJECT_JSON}, v |-> content]

load_service_account_info(environ) ==
  LET raw == getenv(environ.GOOGLE_CREDENTIALS_JSON, "")
      content == IF raw \in DOMAIN SecretFiles THEN SecretFiles[raw] ELSE raw
  IN  IF ~environ.GOOGLE_CREDENTIALS_JSON.set \/ raw = ""
      THEN [ok |-> FALSE, v |-> ""]
      ELSE json_loads(content)

\* A client built whatever the credentials variable holds.
gspread_client_unchecked(environ) == [ok |-> TRUE]

\* _gspread_client(): the service-account info must load and must be a
\* service-account key for Credentials.from_service_account_info to accept it.
gspread_client(environ) ==
  LET info == load_service_account_info(environ)
  IN  [ok |-> info.ok /\ info.v = SERVICE_ACCOUNT_JSON]

\* The check without its "if not expected" branch: an empty header matches
\* an empty or unset API_KEY.
require_api_key_no_misconfig(require, environ, header) ==
  LET expected == strip(getenv(environ.API_KEY, <<>>))
      provided == strip(StrParam(header, <<>>))
  IN  IF ~require THEN TRUE ELSE provided = expected

\* X-API-KEY check of the write route.  expected and provided are stripped;
\* header is the X-API-KEY header (absent reads as "").
require_api_key_if_enabled(require, environ, header) ==
  LET expected == strip(getenv(environ.API_KEY, <<>>))
      provided == strip(StrParam(header, <<>>))
  IN  IF ~require THEN TRUE
      ELSE IF expected = <<>> THEN FALSE
      ELSE provided = expected

\* ------------------------------------------------------------------------
\* State
\* ------------------------------------------------------------------------

\* The server handles the write requests of two clients at a time at most
\* (two gunicorn workers or threads); the read routes are one call each.
Workers == {"w1", "w2"}
Reader == "reader"
Clients == Workers \cup {Reader}

VARIABLES
  REQUIRE_API_KEY,  \* the module-level switch of the API-key check
  environ,          \* os.environ: API_KEY and GOOGLE_CREDENTIALS_JSON
  worksheets,       \* the spreadsheet: title -> NoSheet or Sheet(grid)
  pc,               \* per worker: the Sheets call its write request is at
  req,              \* per worker: its request, the sheet title and the DataFrame
  pre,              \* per worker: the target worksheet as the request found it
  ops,              \* per worker: the Sheets calls the request has made
  resp,             \* per client: the last response it was sent
  asked,            \* the request the reader's last response answers
  writers           \* per title: the workers that updated it since its last clear

vars ==
  <<REQUIRE_API_KEY, environ, worksheets, pc, req, pre, ops, resp, asked, writers>>

\* A response: the status and the fields of the JSON body (or, for the
\* exports and the HTML view, the rows of the document).  seq tells two
\* successive responses to the reader apart (its requests are one step each).
Response(route, status, sheet, rows, total_rows, limit, offset, body, calls, seq) ==
  [route |-> route, status |-> status, sheet |-> sheet, rows |-> rows,
   total_rows |-> total_rows, limit |-> limit, offset |-> offset,
   body |-> body, ops |-> calls, seq |-> seq]

NoResponse == Response("", 0, "", 0, 0, 0, 0, <<>>, <<>>, 0)

\* A response with a status and no table in it (an error, or the write
\* route's answer).
Plain(route, status, sheet, rows, calls, seq) ==
  Response(route, status, sheet, rows, 0, 0, 0, <<>>, calls, seq)

EmptyFrame == [ok |-> TRUE, columns |-> <<>>, values |-> <<>>]

WriteRequest(hasFile, file, sheet, spreadsheet_id, api_key) ==
  [hasFile |-> hasFile, file |-> file, sheet |-> sheet,
   spreadsheet_id |-> spreadsheet_id, api_key |-> api_key]

ReadRequest(sheet, spreadsheet_id, limit, offset) ==
  [sheet |-> sheet, spreadsheet_id |-> spreadsheet_id, limit |-> limit,
   offset |-> offset]

NoRequest ==
  [http |-> WriteRequest(FALSE, Garbage, NoStr, NoStr, NoStr),
   sheet |-> DEFAULT_SHEET_TITLE, df |-> EmptyFrame]

\* ------------------------------------------------------------------------
\* Read routes
\* ------------------------------------------------------------------------

\* A read that creates the worksheet it does not find, as the write route
\* does.
ReadWorksheetGetOrCreate(sheets, env, spreadsheet_id, sheet_title, apiDown) ==
  IF ~gspread_client(env).ok \/ apiDown \/ spreadsheet_id \notin Spreadsheets
  THEN [ok |-> FALSE, data |-> <<>>, ops |-> <<>>, sheets |-> sheets]
  ELSE IF ~sheets[sheet_title].exists
  THEN [ok |-> TRUE, data |-> <<>>,
        ops |-> <<"open_by_key", "worksheet", "add_worksheet", "get_all_values">>,
        sheets |-> [sheets EXCEPT ![sheet_title] = Sheet(<<>>)]]
  ELSE [ok |-> TRUE, data |-> get_all_values(sheets[sheet_title].grid),
        ops |-> <<"open_by_key", "worksheet", "get_all_values">>,
        sheets |-> sheets]

\* client = _gspread_client(); sh = client.open_by_key(spreadsheet_id);
\* ws = sh.worksheet(sheet_title); data = ws.get_all_values().  The first
\* call that raises ends the sequence; apiDown is the Sheets API refusing
\* the request.  sheets is the spreadsheet after the calls: none of them
\* writes.
ReadWorksheet(sheets, env, spreadsheet_id, sheet_title, apiDown) ==
  IF ~gspread_client(env).ok
  THEN [ok |-> FALSE, data |-> <<>>, ops |-> <<>>, sheets |-> sheets]
  ELSE IF apiDown \/ spreadsheet_id \notin Spreadsheets
  THEN [ok |-> FALSE, data |-> <<>>, ops |-> <<"open_by_key">>, sheets |-> sheets]
  ELSE IF ~sheets[sheet_title].exists
  THEN [ok |-> FALSE, data |-> <<>>, ops |-> <<"open_by_key", "worksheet">>,
        sheets |-> sheets]
  ELSE [ok |-> TRUE, data |-> get_all_values(sheets[sheet_title].grid),
        ops |-> <<"open_by_key", "worksheet", "get_all_values">>,
        sheets |-> sheets]

\* dict(zip(header, r)): the pairs up to the shorter of the two; a name that
\* occurs twice keeps its last value.
RowToDict(header, r) ==
  LET n == Min(Len(header), Len(r))
      last(k) == CHOOSE i \in 1..n : header[i] = k /\ \A j \in (i + 1)..n : header[j] # k
  IN  [k \in {header[i] : i \in 1..n} |-> r[last(k)]]

\* limit = max(0, min(limit, cap)); offset = max(0, offset)
ClampLimit(limit, cap) == Max(0, Min(limit, cap))
ClampOffset(offset) == Max(0, offset)

\* A page that is always the slice, limit = 0 included.
PageAlwaysSliced(body, limit, offset) == PySlice(body, offset, offset + limit)

\* body[offset: offset + limit] if limit > 0 else body[offset:]
Page(body, limit, offset) ==
  IF limit > 0 THEN PySlice(body, offset, offset + limit)
  ELSE PySliceFrom(body, offset)

\* header = data[0] if data else []
DataHeader(data) == IF data # <<>> THEN data[1] ELSE <<>>
\* The body taken without dropping the header row.
DataBodyWithHeader(data) == data

\* body = data[1:] if len(data) > 1 else []
DataBody(data) == IF Len(data) > 1 THEN Tail(data) ELSE <<>>

Flip(seq) == 1 - seq

ROUTE_PREVIEW == "/sheets/preview"
ROUTE_CSV == "/sheets/export.csv"
ROUTE_XLSX == "/sheets/export.xlsx"
ROUTE_VIEW == "/sheets/view"
ReadRoutes == {ROUTE_PREVIEW, ROUTE_CSV, ROUTE_XLSX, ROUTE_VIEW}

SheetTitle(r) == StrParam(r.sheet, DEFAULT_SHEET_TITLE)
SpreadsheetId(r) == StrParam(r.spreadsheet_id, DEFAULT_SPREADSHEET_ID)

\* The answer of /sheets/preview to request r, read being what the Sheets
\* calls gave (they are made only when limit and offset parsed).
PreviewResponse(r, read, seq) ==
  LET lim == IntParam(r.limit, PREVIEW_DEFAULT_LIMIT)
      off == IntParam(r.offset, DEFAULT_OFFSET)
      limit == ClampLimit(lim.v, PREVIEW_MAX_LIMIT)
      offset == ClampOffset(off.v)
      header == DataHeader(read.data)
      body == DataBody(read.data)
      sliced == Page(body, limit, offset)
      out == IF header # <<>>
             THEN [i \in 1..Len(sliced) |-> RowToDict(header, sliced[i])]
             ELSE sliced
  IN  IF ~lim.ok \/ ~off.ok
      THEN Plain(ROUTE_PREVIEW, 400, SheetTitle(r), 0, <<>>, seq)
      ELSE IF ~read.ok
      THEN Plain(ROUTE_PREVIEW, 500, SheetTitle(r), 0, read.ops, seq)
      ELSE Response(ROUTE_PREVIEW, 200, SheetTitle(r), 0, Len(body), limit,
                    offset, out, read.ops, seq)

\* The rows of the CSV document: every row of the worksheet.
CsvResponse(r, read, seq) ==
  IF ~read.ok
  THEN Plain(ROUTE_CSV, 500, SheetTitle(r), 0, read.ops, seq)
  ELSE Response(ROUTE_CSV, 200, SheetTitle(r), 0, 0, 0, 0, read.data, read.ops, seq)

\* The rows of the workbook: pd.DataFrame(data[1:], columns=data[0]) written
\* with its header row.
XlsxResponse(r, read, seq) ==
  LET book == IF read.data # <<>> THEN <<read.data[1]>> \o Tail(read.data)
              ELSE <<>>
  IN  IF ~read.ok
      THEN Plain(ROUTE_XLSX, 500, SheetTitle(r), 0, read.ops, seq)
      ELSE Response(ROUTE_XLSX, 200, SheetTitle(r), 0, 0, 0, 0, book, read.ops, seq)

\* The page of /sheets/view: body is one <tr> of the <tbody> per row,
\* total_rows the "Total linhas" figure and rows the "Exibindo" figure.  The
\* cells of the model hold none of the characters html.escape rewrites.
ViewResponse(r, read, seq) ==
  LET lim == IntParam(r.limit, VIEW_DEFAULT_LIMIT)
      off == IntParam(r.offset, DEFAULT_OFFSET)
      limit == ClampLimit(lim.v, VIEW_MAX_LIMIT)
      offset == ClampOffset(off.v)
      body == DataBody(read.data)
      rows == Page(body, limit, offset)
  IN  IF ~lim.ok \/ ~off.ok
      THEN Plain(ROUTE_VIEW, 400, SheetTitle(r), 0, <<>>, seq)
      ELSE IF ~read.ok
      THEN Plain(ROUTE_VIEW, 500, SheetTitle(r), 0, read.ops, seq)
      ELSE Response(ROUTE_VIEW, 200, SheetTitle(r), Len(rows), Len(body), limit,
                    offset, rows, read.ops, seq)

\* Whether the handler reaches its Sheets calls: limit and offset are parsed
\* first, and a ValueError answers 400 before any call.
Parsed(r, defaultLimit) ==
  IntParam(r.limit, defaultLimit).ok /\ IntParam(r.offset, DEFAULT_OFFSET).ok

NoRead(sheets) == [ok |-> FALSE, data |-> <<>>, ops |-> <<>>, sheets |-> sheets]

Answer(r, response, read) ==
  /\ resp' = [resp EXCEPT ![Reader] = response]
  /\ asked' = r
  /\ worksheets' = read.sheets
  /\ UNCHANGED <<REQUIRE_API_KEY, environ, pc, req, pre, ops, writers>>

sheets_preview(r, apiDown) ==
  \E read \in {IF Parsed(r, PREVIEW_DEFAULT_LIMIT)
               THEN ReadWorksheet(worksheets, environ, SpreadsheetId(r),
                                  SheetTitle(r), apiDown)
               ELSE NoRead(worksheets)} :
    \E response \in {PreviewResponse(r, read, Flip(resp[Reader].seq))} :
      Answer(r, response, read)

sheets_export_csv(r, apiDown) ==
  \E read \in {ReadWorksheet(worksheets, environ, SpreadsheetId(r),
                             SheetTitle(r), apiDown)} :
    \E response \in {CsvResponse(r, read, Flip(resp[Reader].seq))} :
      Answer(r, response, read)

sheets_export_xlsx(r, apiDown) ==
  \E read \in {ReadWorksheet(worksheets, environ, SpreadsheetId(r),
                             SheetTitle(r), apiDown)} :
    \E response \in {XlsxResponse(r, read, Flip(resp[Reader].seq))} :
      Answer(r, response, read)

sheets_view(r, apiDown) ==
  \E read \in {IF Parsed(r, VIEW_DEFAULT_LIMIT)
               THEN ReadWorksheet(worksheets, environ, SpreadsheetId(r),
                                  SheetTitle(r), apiDown)
               ELSE NoRead(worksheets)} :
    \E response \in {ViewResponse(r, read, Flip(resp[Reader].seq))} :
      Answer(r, response, read)

\* ------------------------------------------------------------------------
\* The write route, POST /send-to-sheets
\* ------------------------------------------------------------------------

ROUTE_SEND == "/send-to-sheets"

\* The worksheet a DataFrame is meant to become: its column names, then its
\* rows.
Table(df) == <<df.columns>> \o df.values

Done(w, status, rows, calls) ==
  /\ resp' = [resp EXCEPT ![w] =
       Plain(ROUTE_SEND, status, req'[w].sheet, rows, calls, 0)]
  /\ pc' = [pc EXCEPT ![w] = "idle"]
  /\ ops' = [ops EXCEPT ![w] = calls]

\* Lines 279-299: the API-key check, the file field, read_excel, the client
\* and open_by_key.  None of them touches a worksheet.
send_to_sheets(w, r, apiDown) ==
  LET sheet_title == StrParam(r.sheet, DEFAULT_SHEET_TITLE)
      spreadsheet_id == StrParam(r.spreadsheet_id, DEFAULT_SPREADSHEET_ID)
      df == read_excel(r.file)
  IN  /\ pc[w] = "idle"
      /\ req' = [req EXCEPT ![w] = [http |-> r, sheet |-> sheet_title, df |-> df]]
      /\ pre' = [pre EXCEPT ![w] = worksheets[sheet_title]]
      /\ UNCHANGED <<REQUIRE_API_KEY, environ, worksheets, writers, asked>>
      /\ IF ~require_api_key_if_enabled(REQUIRE_API_KEY, environ, r.api_key)
         THEN Done(w, 401, 0, <<>>)
         ELSE IF ~r.hasFile \/ ~df.ok
         THEN Done(w, 400, 0, <<>>)
         ELSE IF ~gspread_client(environ).ok
         THEN Done(w, 500, 0, <<>>)
         ELSE IF apiDown \/ spreadsheet_id \notin Spreadsheets
         THEN Done(w, 500, 0, <<"open_by_key">>)
         ELSE /\ pc' = [pc EXCEPT ![w] = "worksheet"]
              /\ ops' = [ops EXCEPT ![w] = <<"open_by_key">>]
              /\ UNCHANGED resp

\* Line 301: ws = sh.worksheet(sheet_title); WorksheetNotFound leads to
\* add_worksheet, any other error to the 500 answer.
FindWorksheet(w, apiDown) ==
  LET calls == Append(ops[w], "worksheet")
  IN  /\ pc[w] = "worksheet"
      /\ UNCHANGED <<REQUIRE_API_KEY, environ, worksheets, writers, req, pre, asked>>
      /\ IF apiDown
         THEN Done(w, 500, 0, calls)
         ELSE /\ pc' = [pc EXCEPT ![w] =
                   IF worksheets[req[w].sheet].exists THEN "clear"
                   ELSE "add_worksheet"]
              /\ ops' = [ops EXCEPT ![w] = calls]
              /\ UNCHANGED resp

\* Line 303: sh.add_worksheet(title=sheet_title, rows="100", cols="20").  The
\* API refuses a title the spreadsheet already has.
AddWorksheet(w, apiDown) ==
  LET calls == Append(ops[w], "add_worksheet")
      t == req[w].sheet
  IN  /\ pc[w] = "add_worksheet"
      /\ UNCHANGED <<REQUIRE_API_KEY, environ, req, pre, asked>>
      /\ IF apiDown \/ worksheets[t].exists
         THEN /\ Done(w, 500, 0, calls)
              /\ UNCHANGED <<worksheets, writers>>
         ELSE /\ worksheets' = [worksheets EXCEPT ![t] = Sheet(<<>>)]
              /\ writers' = [writers EXCEPT ![t] = {}]
              /\ pc' = [pc EXCEPT ![w] = "clear"]
              /\ ops' = [ops EXCEPT ![w] = calls]
              /\ UNCHANGED resp

\* Line 305: ws.clear()
Clear(w, apiDown) ==
  LET calls == Append(ops[w], "clear")
      t == req[w].sheet
  IN  /\ pc[w] = "clear"
      /\ UNCHANGED <<REQUIRE_API_KEY, environ, req, pre, asked>>
      /\ IF apiDown
         THEN /\ Done(w, 500, 0, calls)
              /\ UNCHANGED <<worksheets, writers>>
         ELSE /\ worksheets' = [worksheets EXCEPT ![t] = Sheet(ws_clear(@.grid))]
              /\ writers' = [writers EXCEPT ![t] = {}]
              /\ pc' = [pc EXCEPT ![w] = "update_A1"]
              /\ ops' = [ops EXCEPT ![w] = calls]
              /\ UNCHANGED resp

\* The column names written whether or not the DataFrame is empty.
FirstRowColumns(df) == df.columns

\* The first row the route writes (lines 306-310): the column names, or the
\* single cell "(vazio)" for an empty DataFrame.
FirstRow(df) == IF df_empty(df) THEN <<VAZIO>> ELSE df.columns

\* Lines 306-310: ws.update("A1", ...).  An empty DataFrame ends the request
\* here with rows = 0.
UpdateA1(w, apiDown) ==
  LET calls == Append(ops[w], "update")
      t == req[w].sheet
      df == req[w].df
      values == <<FirstRow(df)>>
  IN  /\ pc[w] = "update_A1"
      /\ UNCHANGED <<REQUIRE_API_KEY, environ, req, pre, asked>>
      /\ IF apiDown \/ ~Serializable(values)
         THEN /\ Done(w, 500, 0, calls)
              /\ UNCHANGED <<worksheets, writers>>
         ELSE /\ worksheets' = [worksheets EXCEPT ![t] =
                   Sheet(ws_update(@.grid, 1, values))]
              /\ writers' = [writers EXCEPT ![t] = @ \cup {w}]
              /\ IF df_empty(df)
                 THEN Done(w, 200, 0, calls)
                 ELSE /\ pc' = [pc EXCEPT ![w] = "update_A2"]
                      /\ ops' = [ops EXCEPT ![w] = calls]
                      /\ UNCHANGED resp

\* Lines 311-314: ws.update("A2", df.values.tolist()); rows = len(df)
UpdateA2(w, apiDown) ==
  LET calls == Append(ops[w], "update")
      t == req[w].sheet
      df == req[w].df
  IN  /\ pc[w] = "update_A2"
      /\ UNCHANGED <<REQUIRE_API_KEY, environ, req, pre, asked>>
      /\ IF apiDown \/ ~Serializable(df.values)
         THEN /\ Done(w, 500, 0, calls)
              /\ UNCHANGED <<worksheets, writers>>
         ELSE /\ worksheets' = [worksheets EXCEPT ![t] =
                   Sheet(ws_update(@.grid, 2, df.values))]
              /\ writers' = [writers EXCEPT ![t] = @ \cup {w}]
              /\ Done(w, 200, Len(df.values), calls)

\* ------------------------------------------------------------------------
\* Inputs
\* ------------------------------------------------------------------------

\* The worksheet "Cursos Gratuitos" as the service finds it: a header and
\* three rows, one of them with a blank last cell.
OldGrid ==
  << <<"curso", "link">>,
     <<"Redes", "http://uninter.com/redes">>,
     <<"Logica">>,
     <<"Etica", "https://uninter.com/etica">> >>

\* Uploaded workbooks: two complete tables of different shapes, one with a
\* blank header cell and blank data cells, and one with a header row only.
T1 == Xlsx(<< <<"nome", "nota">>, <<"Ana", "9">>, <<"Bia", "7">> >>)
T2 == Xlsx(<< <<"polo">>, <<"Curitiba">> >>)
TBlank == Xlsx(<< <<"nome", "">>, <<"Ana", "">> >>)
THead == Xlsx(<< <<"nome", "nota">> >>)

SheetArgs == {NoStr, StrArg(OTHER_SHEET_TITLE)}

WriteRequests ==
  {WriteRequest(TRUE, f, s, NoStr, NoStr) :
     f \in {T1, T2, TBlank, THead, Garbage}, s \in SheetArgs}
  \cup {WriteRequest(FALSE, Garbage, NoStr, NoStr, NoStr),
        WriteRequest(TRUE, T1, NoStr, StrArg(OTHER_SPREADSHEET_ID), NoStr)}

FewWriteRequests ==
  {WriteRequest(TRUE, T2, s, NoStr, NoStr) : s \in SheetArgs}
  \cup {WriteRequest(FALSE, Garbage, NoStr, NoStr, NoStr)}

ConcRequests ==
  {WriteRequest(TRUE, f, StrArg(OTHER_SHEET_TITLE), NoStr, NoStr) : f \in {T1, T2}}

ApiKeyHeaders ==
  {NoStr, StrArg(<<>>), StrArg(<<"k">>), StrArg(<<" ", "k", "\t">>), StrArg(<<"x">>)}

AuthRequests ==
  {WriteRequest(TRUE, T2, s, NoStr, h) : s \in SheetArgs, h \in ApiKeyHeaders}

ExportRequests ==
  {ReadRequest(s, NoStr, NoArg, NoArg) : s \in SheetArgs}
  \cup {ReadRequest(NoStr, StrArg(OTHER_SPREADSHEET_ID), NoArg, NoArg)}

PageRequests ==
  {ReadRequest(NoStr, NoStr, l, o) :
     l \in {NoArg, TextArg} \cup {IntArg(n) : n \in 1..MaxLimit},
     o \in {NoArg, TextArg} \cup {IntArg(n) : n \in 1..MaxOffset}}
  \cup {ReadRequest(StrArg(OTHER_SHEET_TITLE), NoStr, NoArg, NoArg),
        ReadRequest(StrArg(OTHER_SHEET_TITLE), NoStr, TextArg, NoArg),
        ReadRequest(NoStr, StrArg(OTHER_SPREADSHEET_ID), NoArg, NoArg)}

\* A worksheet longer than the largest cap on a page, each row its own.
BigRows == VIEW_MAX_LIMIT + ExtraRows
BigGrid == << <<"id">> >> \o [i \in 1..BigRows |-> <<ToString(i)>>]

BigLimits ==
  {NoArg} \cup {IntArg(n) : n \in {-1, 0, 1, PREVIEW_MAX_LIMIT, PREVIEW_MAX_LIMIT + 1,
                                 VIEW_MAX_LIMIT, VIEW_MAX_LIMIT + ExtraRows}}
BigOffsets ==
  {NoArg} \cup {IntArg(n) : n \in {-1, VIEW_MAX_LIMIT, BigRows}}

BigRequests == {ReadRequest(NoStr, NoStr, l, o) : l \in BigLimits, o \in BigOffsets}

CredentialSettings ==
  {Unset(""), SetTo(""), SetTo(GOOD_SECRET_PATH), SetTo(BAD_SECRET_PATH),
   SetTo(SERVICE_ACCOUNT_JSON), SetTo(EMPTY_OBJECT_JSON), SetTo(NOT_JSON)}

GoodCredentials == {SetTo(GOOD_SECRET_PATH), SetTo(SERVICE_ACCOUNT_JSON)}

ApiKeySettings ==
  {Unset(<<>>), SetTo(<<>>), SetTo(<<" ">>), SetTo(<<"k">>), SetTo(<<"k", " ">>)}

Environ(api_key, credentials) ==
  [API_KEY |-> api_key, GOOGLE_CREDENTIALS_JSON |-> credentials]

\* ------------------------------------------------------------------------
\* Specifications
\* ------------------------------------------------------------------------

\* The state after create_app(): no request handled yet.
Started(require, env, sheets) ==
  /\ REQUIRE_API_KEY = require
  /\ environ = env
  /\ worksheets = sheets
  /\ pc = [w \in Workers |-> "idle"]
  /\ req = [w \in Workers |-> NoRequest]
  /\ pre = [w \in Workers |-> NoSheet]
  /\ ops = [w \in Workers |-> <<>>]
  /\ resp = [c \in Clients |-> NoResponse]
  /\ asked = ReadRequest(NoStr, NoStr, NoArg, NoArg)
  /\ writers = [t \in Titles |-> {}]

OldSheets ==
  (DEFAULT_SHEET_TITLE :> Sheet(OldGrid)) @@ (OTHER_SHEET_TITLE :> NoSheet)

BigSheets ==
  (DEFAULT_SHEET_TITLE :> Sheet(BigGrid)) @@ (OTHER_SHEET_TITLE :> NoSheet)

\* The service as shipped (REQUIRE_API_KEY = False), under every setting of
\* the credentials variable, serving one writer and the read routes.
Init ==
  \E c \in CredentialSettings :
    Started(FALSE, Environ(Unset(<<>>), c), OldSheets)

\* outages: whether the Sheets API may refuse a call (TRUE) or answers
\* every call (FALSE).
WriteStep(w, requests, outages) ==
  \/ \E r \in requests, apiDown \in outages : send_to_sheets(w, r, apiDown)
  \/ \E apiDown \in outages : FindWorksheet(w, apiDown)
  \/ \E apiDown \in outages : AddWorksheet(w, apiDown)
  \/ \E apiDown \in outages : Clear(w, apiDown)
  \/ \E apiDown \in outages : UpdateA1(w, apiDown)
  \/ \E apiDown \in outages : UpdateA2(w, apiDown)

ReadStep(pages, exports) ==
  \/ \E r \in pages, apiDown \in BOOLEAN : sheets_preview(r, apiDown)
  \/ \E r \in pages, apiDown \in BOOLEAN : sheets_view(r, apiDown)
  \/ \E r \in exports, apiDown \in BOOLEAN : sheets_export_csv(r, apiDown)
  \/ \E r \in exports, apiDown \in BOOLEAN : sheets_export_xlsx(r, apiDown)

Next ==
  \/ WriteStep("w1", FewWriteRequests, {FALSE})
  \/ ReadStep(PageRequests, ExportRequests)

Spec == Init /\ [][Next]_vars

GoodEnviron == Environ(Unset(<<>>), SetTo(SERVICE_ACCOUNT_JSON))

\* One writer at a time, every kind of upload, the Sheets API failing at
\* any call.
InitWrite == Started(FALSE, GoodEnviron, OldSheets)

NextWrite == WriteStep("w1", WriteRequests, BOOLEAN)

SpecWrite == InitWrite /\ [][NextWrite]_vars

\* The API-key switch in both positions, under every setting of API_KEY.
InitAuth ==
  \E require \in BOOLEAN, k \in ApiKeySettings :
    Started(require, Environ(k, SetTo(GOOD_SECRET_PATH)), OldSheets)

NextAuth == WriteStep("w1", AuthRequests, {FALSE})

SpecAuth == InitAuth /\ [][NextAuth]_vars

\* The two paged read routes in front of a long worksheet.
InitBig == Started(FALSE, GoodEnviron, BigSheets)

NextBig ==
  \/ \E r \in BigRequests : sheets_preview(r, FALSE)
  \/ \E r \in BigRequests : sheets_view(r, FALSE)

SpecBig == InitBig /\ [][NextBig]_vars

\* Two write requests at a time, their Sheets calls interleaved, the Sheets
\* API answering every call.
InitConc == Started(FALSE, GoodEnviron, OldSheets)

NextConc == \E w \in Workers : WriteStep(w, ConcRequests, {FALSE})

SpecConc == InitConc /\ [][NextConc]_vars

\* ------------------------------------------------------------------------
\* Properties
\* ------------------------------------------------------------------------

\* Worker w has been answered by the write route and has no request in hand.
Answered(w) == pc[w] = "idle" /\ resp[w].route = ROUTE_SEND

\* The upload of w's request is a readable workbook with at least one data
\* row.
NonEmptyUpload(w) ==
  /\ req[w].http.hasFile
  /\ req[w].http.file.readable
  /\ Len(req[w].http.file.cells) > 1

\* The worksheet w's request targets, as get_all_values reads it.
TargetValues(w) == get_all_values(worksheets[req[w].sheet].grid)

\* C1: after a POST /send-to-sheets with a readable workbook that has data
\* rows has answered 200, with no other write request running, the target
\* worksheet reads back as exactly the upload: row 1 the column names, rows
\* 2.. the data rows of the workbook in order, nothing else; and the "rows"
\* of the answer is the number of data rows.
C1_UploadReplacesWorksheet ==
  \A w \in Workers :
    (Answered(w) /\ resp[w].status = 200 /\ NonEmptyUpload(w)) =>
      LET data == TargetValues(w)
          cells == req[w].http.file.cells
      IN  /\ worksheets[req[w].sheet].exists
          /\ Len(data) = Len(cells)
          /\ data[1] = req[w].df.columns
          /\ \A i \in 2..Len(cells) : data[i] = cells[i]
          /\ resp[w].rows = Len(cells) - 1

\* C1 witness: the one-row table T2 was written over the longer worksheet
\* "Cursos Gratuitos" and the request answered 200.
C1_Witness ==
  /\ Answered("w1") /\ resp["w1"].status = 200
  /\ req["w1"].http.file = T2
  /\ req["w1"].sheet = DEFAULT_SHEET_TITLE
  /\ pre["w1"] = Sheet(OldGrid)
  /\ worksheets[DEFAULT_SHEET_TITLE].grid = T2.cells

\* What the route writes for a DataFrame when every call succeeds.
Uploaded(df) == IF df_empty(df) THEN << <<VAZIO>> >> ELSE Table(df)

\* C8 as stated: after a single write request, whatever its status, the
\* target worksheet holds its content from before the request or the
\* complete upload, and after a 500 it holds the content from before.
C8_AllOrNothing ==
  \A w \in Workers :
    Answered(w) =>
      /\ worksheets[req[w].sheet] \in {pre[w], Sheet(Uploaded(req[w].df))}
      /\ resp[w].status = 500 => worksheets[req[w].sheet] = pre[w]

\* The Sheets calls of w's request that succeeded: all of them after a 200,
\* all but the last after a 500 that a call raised.
Succeeded(w) ==
  IF resp[w].status = 200 \/ ops[w] = <<>> THEN ops[w]
  ELSE SubSeq(ops[w], 1, Len(ops[w]) - 1)

Count(calls, name) == Cardinality({i \in 1..Len(calls) : calls[i] = name})

\* C8 as amended: after a single write request the target worksheet is in
\* the state its last successful Sheets call left it in.  It holds its
\* content from before when the request ended before clear succeeded (any
\* 400 or 401, and a 500 raised up to and including the clear call); it is
\* empty when clear (or add_worksheet) succeeded and the first update did
\* not; it holds only the first row of the upload when the body update
\* failed; it holds the complete upload when the answer is 200.
C8_LastSuccessfulCall ==
  \A w \in Workers :
    Answered(w) =>
      LET done == Succeeded(w)
          now == worksheets[req[w].sheet]
          df == req[w].df
          first == IF df_empty(df) THEN <<VAZIO>> ELSE df.columns
      IN  /\ resp[w].status \in {200, 400, 401, 500}
          /\ resp[w].status \in {400, 401} => now = pre[w] /\ ops[w] = <<>>
          /\ resp[w].status = 200 => now = Sheet(Uploaded(df))
          /\ resp[w].status = 500 =>
               CASE Count(done, "update") = 1 -> now = Sheet(<<first>>)
                 [] Count(done, "clear") = 1 -> now = Sheet(<<>>)
                 [] Count(done, "add_worksheet") = 1 -> now = Sheet(<<>>)
                 [] OTHER -> now = pre[w]

\* C8 witness: the body update of T1 failed after clear and the header
\* update went through; the request answered 500 and the worksheet, which
\* held four rows, holds the header of T1 alone.
C8_Witness ==
  /\ Answered("w1") /\ resp["w1"].status = 500
  /\ req["w1"].http.file = T1
  /\ pre["w1"] = Sheet(OldGrid)
  /\ ops["w1"] = <<"open_by_key", "worksheet", "clear", "update", "update">>
  /\ worksheets[req["w1"].sheet] = Sheet(<< <<"nome", "nota">> >>)

\* The reader's last response, and the limit and offset its request asked
\* for (an absent parameter asks for the route's default).
Reply == resp[Reader]
AskedLimit(default) == IF asked.limit.present THEN asked.limit.v ELSE default
AskedOffset == IF asked.offset.present THEN asked.offset.v ELSE DEFAULT_OFFSET
IntegerOrAbsent(arg) == ~arg.present \/ arg.isInt

\* The rows of the worksheet the reader's request named: the header is row
\* 1, data row k is row k + 1.
ReadValues == get_all_values(worksheets[Reply.sheet].grid)
DataRows == Max(0, Len(ReadValues) - 1)

\* C2: for GET /sheets/preview with an integer limit in 1..1000 and an
\* integer offset >= 0 (absent: 0), "preview" is the data rows at positions
\* offset .. offset + limit - 1 that exist, in sheet order, each as the dict
\* of its cells under the header; "total_rows" is the number of data rows
\* whatever limit and offset are; an offset at or past the last data row
\* gives an empty preview with status 200.
C2_PreviewPage ==
  (/\ Reply.route = ROUTE_PREVIEW /\ Reply.status = 200
   /\ asked.limit.present /\ asked.limit.isInt
   /\ asked.limit.v \in 1..PREVIEW_MAX_LIMIT
   /\ IntegerOrAbsent(asked.offset) /\ AskedOffset >= 0) =>
    LET data == ReadValues
        n == Len(data) - 1
        limit == asked.limit.v
        offset == AskedOffset
    IN  /\ Reply.total_rows = n
        /\ Len(Reply.body) = Max(0, Min(limit, n - offset))
        /\ \A i \in 1..Len(Reply.body) :
             Reply.body[i] = RowToDict(data[1], data[1 + offset + i])
        /\ offset >= n => Reply.body = <<>>

\* C2 witness: limit = 1000 at offset 2000 of the 2001 data rows: the page
\* holds the one row that exists, row 2001.
C2_Witness ==
  /\ Reply.route = ROUTE_PREVIEW /\ Reply.status = 200
  /\ asked.limit = IntArg(PREVIEW_MAX_LIMIT)
  /\ asked.offset = IntArg(VIEW_MAX_LIMIT)
  /\ DataRows > PREVIEW_MAX_LIMIT
  /\ Len(Reply.body) = DataRows - VIEW_MAX_LIMIT
  /\ Reply.body[1]["id"] = ToString(VIEW_MAX_LIMIT + 1)

\* C3: GET /sheets/preview has a maximum limit of 1000: whatever integers
\* limit and offset are, the "preview" of a 200 answer holds at most 1000
\* rows.
C3_PreviewAtMost1000 ==
  (Reply.route = ROUTE_PREVIEW /\ Reply.status = 200) =>
    Len(Reply.body) <= PREVIEW_MAX_LIMIT

\* C4: for GET /sheets/view, limit = 0 shows every data row from position
\* offset to the end of the sheet; a limit > 0 shows the rows from offset
\* on, min(limit, 2000) of them at most; an absent limit is 50.  (offset is
\* an integer >= 0, or absent: 0.)
C4_ViewPage ==
  (/\ Reply.route = ROUTE_VIEW /\ Reply.status = 200
   /\ IntegerOrAbsent(asked.limit) /\ AskedLimit(VIEW_DEFAULT_LIMIT) >= 0
   /\ IntegerOrAbsent(asked.offset) /\ AskedOffset >= 0) =>
    LET data == ReadValues
        n == Len(data) - 1
        limit == AskedLimit(VIEW_DEFAULT_LIMIT)
        offset == AskedOffset
        shown == Len(Reply.body)
    IN  /\ \A i \in 1..shown : Reply.body[i] = data[1 + offset + i]
        /\ limit = 0 => shown = Max(0, n - offset)
        /\ limit > 0 => shown = Max(0, Min(Min(limit, VIEW_MAX_LIMIT), n - offset))
        /\ ~asked.limit.present => shown = Max(0, Min(50, n - offset))

\* C4 witness: limit = 0 in front of 2001 data rows: the page shows all of
\* them, more than the cap of 2000.
C4_Witness ==
  /\ Reply.route = ROUTE_VIEW /\ Reply.status = 200
  /\ asked.limit = IntArg(0) /\ ~asked.offset.present
  /\ Len(Reply.body) = DataRows
  /\ DataRows > VIEW_MAX_LIMIT

\* The X-API-KEY header of w's request, stripped, equals the stripped value
\* of API_KEY, and that value is not empty.
Authorized(w) ==
  LET expected == strip(IF environ.API_KEY.set THEN environ.API_KEY.v ELSE <<>>)
      header == req[w].http.api_key
      provided == strip(IF header.present THEN header.v ELSE <<>>)
  IN  expected # <<>> /\ provided = expected

\* C5: with REQUIRE_API_KEY on, a write request makes Sheets calls only
\* when its X-API-KEY header, stripped, equals the non-empty stripped
\* API_KEY; every other request (header absent or different, API_KEY unset
\* or empty even with an empty header) is answered 401 with no Sheets call
\* made and the worksheet as it was.  With REQUIRE_API_KEY off no request
\* is answered 401.
C5_ApiKeyGate ==
  \A w \in Workers :
    /\ (REQUIRE_API_KEY /\ (pc[w] # "idle" \/ ops[w] # <<>>)) => Authorized(w)
    /\ (REQUIRE_API_KEY /\ Answered(w) /\ ~Authorized(w)) =>
         /\ resp[w].status = 401
         /\ resp[w].ops = <<>>
         /\ worksheets[req[w].sheet] = pre[w]
    /\ ~REQUIRE_API_KEY => resp[w].status # 401

\* C5 witness: the check is on, API_KEY is a blank, the header is the empty
\* text, and the request was answered 401.
C5_Witness ==
  /\ REQUIRE_API_KEY
  /\ environ.API_KEY = SetTo(<<" ">>)
  /\ Answered("w1") /\ resp["w1"].status = 401
  /\ req["w1"].http.api_key = StrArg(<<>>)

\* GOOGLE_CREDENTIALS_JSON is unset, empty, or resolves (inline or through
\* the file it names) to a text that is not JSON.
BadCredentials ==
  LET c == environ.GOOGLE_CREDENTIALS_JSON
  IN  ~c.set \/ c.v = "" \/ c.v \in {BAD_SECRET_PATH, NOT_JSON}

\* The checks a request passes before the handler builds its client.
ReaderInputOk ==
  Reply.route \in {ROUTE_PREVIEW, ROUTE_VIEW} =>
    IntegerOrAbsent(asked.limit) /\ IntegerOrAbsent(asked.offset)
WriterInputOk(w) == req[w].http.hasFile /\ req[w].http.file.readable

\* C6 as stated: with bad credentials every Sheets route answers 500 (the
\* write route once past its input checks) and reads or writes no worksheet.
C6_Always500 ==
  BadCredentials =>
    /\ Reply.route \in ReadRoutes => Reply.status = 500 /\ Reply.ops = <<>>
    /\ \A w \in Workers :
         (Answered(w) /\ WriterInputOk(w)) =>
           resp[w].status = 500 /\ resp[w].ops = <<>>

\* C6 as amended: with bad credentials every Sheets route, once past its
\* input checks, answers 500; a request that fails its input checks
\* (limit or offset not an integer on /sheets/preview and /sheets/view, no
\* file or an unreadable file on /send-to-sheets) is answered 400 first.
\* Either way no Sheets call is made and no worksheet changes.
C6_BadCredentials ==
  BadCredentials =>
    /\ Reply.route \in ReadRoutes =>
         /\ Reply.status = IF ReaderInputOk THEN 500 ELSE 400
         /\ Reply.ops = <<>>
    /\ \A w \in Workers :
         /\ pc[w] = "idle" /\ ops[w] = <<>>
         /\ Answered(w) =>
              /\ resp[w].status = IF WriterInputOk(w) THEN 500 ELSE 400
              /\ resp[w].ops = <<>>
    /\ worksheets = OldSheets

\* C6 witness: the variable names a file that holds no JSON; an export and
\* an upload of a readable workbook were both answered 500.
C6_Witness ==
  /\ environ.GOOGLE_CREDENTIALS_JSON = SetTo(BAD_SECRET_PATH)
  /\ Reply.route = ROUTE_CSV /\ Reply.status = 500
  /\ Answered("w1") /\ resp["w1"].status = 500
  /\ req["w1"].http.file = T2

\* A worksheet comes into existence in this step only through the
\* add_worksheet call of a write request for its title.
OnlyWritesCreate ==
  \A t \in Titles :
    (~worksheets[t].exists /\ worksheets'[t].exists) =>
      \E w \in Workers :
        pc[w] = "add_worksheet" /\ req[w].sheet = t /\ pc'[w] = "clear"

\* C7 as stated: a read route changes nothing of the spreadsheet, whatever
\* its parameters, and its outcome is 200 or 500; a read of a title that
\* does not exist is answered 500 and does not create it; only the write
\* route creates a worksheet.
C7_ReadsAnswer200Or500 ==
  [][/\ resp'[Reader].seq # resp[Reader].seq =>
          /\ worksheets' = worksheets
          /\ resp'[Reader].route \in ReadRoutes
          /\ resp'[Reader].status \in {200, 500}
          /\ ~worksheets[resp'[Reader].sheet].exists =>
               resp'[Reader].status = 500
     /\ OnlyWritesCreate
    ]_vars

\* C7 as amended: a read route changes nothing of the spreadsheet, whatever
\* its parameters and its answer (every step that answers the reader leaves
\* every worksheet, and the set of worksheets, as it was); its outcome is
\* 200, 500, or 400 exactly when the route is /sheets/preview or
\* /sheets/view and limit or offset is no integer; a read of a title that
\* does not exist is answered 500 (400 in that case) and does not create
\* it; a worksheet comes into existence only through the add_worksheet call
\* of a write request for its title.
C7_ReadsChangeNothing ==
  [][/\ resp'[Reader].seq # resp[Reader].seq =>
          /\ worksheets' = worksheets
          /\ resp'[Reader].route \in ReadRoutes
          /\ resp'[Reader].status \in {200, 400, 500}
          /\ ~worksheets[resp'[Reader].sheet].exists =>
               resp'[Reader].status \in {400, 500}
          /\ resp'[Reader].status = 400 <=>
               /\ resp'[Reader].route \in {ROUTE_PREVIEW, ROUTE_VIEW}
               /\ ~(IntegerOrAbsent(asked'.limit) /\ IntegerOrAbsent(asked'.offset))
     /\ OnlyWritesCreate
    ]_vars

\* C7 witness: with working credentials, a preview of the missing worksheet
\* "Outra" got as far as the worksheet lookup, was answered 500, and the
\* worksheet still does not exist.
C7_Witness ==
  /\ Reply.route = ROUTE_PREVIEW /\ Reply.status = 500
  /\ asked.sheet = StrArg(OTHER_SHEET_TITLE)
  /\ Reply.ops = <<"open_by_key", "worksheet">>
  /\ ~worksheets[OTHER_SHEET_TITLE].exists

\* Both workers were answered 200 for uploads, with data rows, of different
\* workbooks to the same worksheet.
BothWrote ==
  /\ \A w \in Workers : Answered(w) /\ resp[w].status = 200 /\ NonEmptyUpload(w)
  /\ req["w1"].sheet = req["w2"].sheet
  /\ req["w1"].http.file # req["w2"].http.file

====
